---- MODULE Spec2Model ----
(***************************************************************************)
(* Model of the Ascendara installer: the InstallerProcess worker thread    *)
(* (src/core/installer.py), the Downloader it drives                       *)
(* (src/core/downloader.py) and the two places of the main window that     *)
(* start a worker (src/ui/main_window.py).                                 *)
(*                                                                         *)
(* A worker takes one step per blocking point of run(): the version-info   *)
(* request, the download request, each read of the response body and the   *)
(* wait for the child.  Everything run() does between two blocking points  *)
(* (callbacks, the file check, the handlers of its try blocks) is part of  *)
(* the step that reaches the next blocking point.                          *)
(*                                                                         *)
(* Callbacks are the main window's methods; they are taken not to raise,    *)
(* so the outermost handler of run() (except Exception around both try     *)
(* blocks) is never entered.                                               *)
(* Sizes are counted in chunks of iter_content (1 MB in the source).       *)
(***************************************************************************)
EXTENDS Integers, Sequences, FiniteSets, TLC

\* ------------------------------------------------------------------ bounds

\* Largest response body, and largest declared content-length, in chunks.
MaxBody == 2

\* Last second the clock reaches.
MaxClock == 2

\* The content length of a file a hundred times the largest chunk and more.
LargeLength == 100

\* ------------------------------------------------------------- environment

\* The two places that create an InstallerProcess: the automatic start after
\* the fade-in and the Install button.
Sessions == {"auto", "click"}

\* Status codes a server may answer with.
HttpCodes == {200, 404, 500}

\* Exit codes of the spawned installer.
ExitCodes == {0, 1}

\* What requests.get('https://api.ascendara.app', timeout=5) can produce.
VersionResponses ==
    [net : {"ok", "error", "timeout"},
     code : {200, 404, 500},
     json : {"object", "malformed"},
     appVer : BOOLEAN,
     status : {"OK", "ERROR", "absent"}]

\* What requests.get(url, stream=True, timeout=30) can produce: a network
\* error, or a response with a status code and a content-length header
\* (length 0 stands for a missing header as well: headers.get(.., 0)).
DownloadResponses ==
    [net : {"ok", "error"}, code : HttpCodes,
     length : (0..MaxBody) \cup {LargeLength}]

\* What requests.get on the releases API of GitHub can produce; assets says
\* whether the payload lists an asset whose name ends in .exe, lists none,
\* or has no assets field.
GithubResponses ==
    [net : {"ok", "error"},
     code : HttpCodes,
     json : {"object", "malformed"},
     assets : {"exe", "no_exe", "missing"}]

\* How the request of _update_download_count can end.
PingOutcomes == {"ok", "http_error", "network_error", "timeout"}

\* The sources run() downloads from: the release asset and the mirror.
Sources == {"primary", "fallback"}

\* ---------------------------------------------------------------- messages

MsgDownloading == "Downloading Ascendara..."
MsgDownloadingFile == "Downloading <file>..."
MsgRunning == "Running installer..."
MsgComplete == "Installation complete!"
MsgPrimaryFailed == "Primary download failed, trying backup..."
MsgDownloadFailed == "Download failed. Please try again later."
MsgDownloadError == "Download error: <e>"
MsgError == "Error: <e>"

\* -------------------------------------------------------------------- state

VARIABLES
    w,               \* w[s]: the InstallerProcess created by trigger s
    file,            \* file[p]: the file at path p of the temp directory
    install_button,  \* state of the Install button
    faded,           \* on_fade_in_complete has run
    clock,           \* int(time.time()), in seconds since the start
    rel,             \* the last call of Downloader.get_latest_github_release
    bar              \* the window's progress bar and percentage label

vars == <<w, file, install_button, faded, clock, rel, bar>>

\* The window's part of the state, and the part no thread of the program
\* writes.
ui == <<install_button, faded>>

env == <<clock, rel>>

\* The destination path of each source: AscendaraInstaller_<version>.exe
\* for the release asset and AscendaraInstaller.exe for the mirror.
Paths == Sources

NoFile == [exists |-> FALSE, size |-> 0]

\* A progress value: none yet ("unset"), progress_callback(None)
\* ("indeterminate"), or the percentage num/den ("percent").
NoProgress == [kind |-> "unset", num |-> 0, den |-> 1]

Indeterminate == [kind |-> "indeterminate", num |-> 0, den |-> 1]

\* The headers _generate_auth_headers adds, when a request carries none of
\* them.
NoHeaders == [timestamp |-> -1, signature |-> <<>>, id |-> ""]

\* get_latest_github_release has not been called.
NoRelease == [pc |-> "idle", result |-> "none"]

\* The progress bar as the window creates it: determinate, set(0), label
\* "0%", no after() callback waiting.
NewBar ==
    [mode |-> "determinate",
     value |-> [num |-> 0, den |-> 1],  \* what progress_bar.set was given
     percentage |-> 0,                  \* the number in the percentage label
     pending |-> <<>>,                  \* arguments of the after(50) callbacks
     applied |-> NoProgress,            \* last argument of
                                        \* _update_determinate_progress
     high |-> [num |-> 0, den |-> 1]]   \* highest value set during the
                                        \* download in progress

\* The bar in the specifications that follow the threads only: the widgets
\* are left out of the state.
NoBar == [NewBar EXCEPT !.mode = "untracked"]

\* The arguments and locals of one Downloader.download_file call, and how
\* the call ended.
NewCall(source, headers) ==
    [source |-> source,       \* "primary" (release asset) or "fallback" (mirror)
     headers |-> headers,     \* NoHeaders or the auth headers
     at |-> 0,                \* the clock when the call was made
     requests |-> 1,          \* requests.get calls made
     code |-> 0,              \* status code of the response (0: none)
     total |-> 0,             \* total_size
     opened |-> FALSE,        \* the destination has been opened for writing
     downloaded |-> 0,        \* bytes written
     dlprog |-> NoProgress,   \* last percentage given to progress_callback
     indet |-> FALSE,         \* progress_callback(None) was called in the call
     failed |-> FALSE,        \* the request, the open or a read has failed
     ret |-> "running"]       \* running, ok (returned), raised

\* No download_file call is executing.
NoCall == [NewCall("none", NoHeaders) EXCEPT !.requests = 0, !.ret = "none"]

\* InstallerProcess.__init__, with the observations the properties need.
NewWorker ==
    [pc |-> "idle",           \* idle, started, version, dl_request,
                              \* dl_content, dl_stream, dl_done, child, done
     running |-> FALSE,       \* self.running
     client_id |-> "",        \* self.client_id, a fresh uuid4
     installer_secret |-> "dev_secret_key",
     ping |-> "none",         \* the _update_download_count thread: none,
                              \* started, inflight, done
     pings |-> 0,             \* requests.get calls of that thread
     pingheaders |-> NoHeaders, \* the headers of its request
     pingat |-> 0,            \* the clock when they were generated
     dl |-> NoCall,           \* the download_file call that is executing
     progress |-> NoProgress, \* last argument of progress_callback
     status |-> "",           \* last argument of status_callback
     announced |-> FALSE,     \* MsgPrimaryFailed has been emitted
     resolution |-> "pending",\* outcome of the primary resolution
     calls |-> <<>>,          \* download_file calls so far: <<source, headers>>
     cause |-> "none",        \* what raised last in run(): download,
                              \* verification, launch, install
     ui_calls |-> FALSE,      \* a method of the window has run on this thread
     emitted |-> FALSE,       \* the thread's last step called progress_callback
     late_progress |-> FALSE, \* progress_callback was called after
                              \* completion_callback
     badfile |-> {},          \* sources whose download returned a missing or
                              \* empty file
     spawns |-> 0,            \* subprocess.Popen calls that started a child
     exits |-> <<>>,          \* return codes observed by process.wait()
     completions |-> <<>>]    \* arguments of completion_callback, in order

InitProgram ==
    /\ w = [s \in Sessions |-> [NewWorker EXCEPT !.client_id = "uuid-" \o s]]
    /\ file = [p \in Paths |-> NoFile]
    /\ install_button = "normal"
    /\ faded = FALSE
    /\ clock = 0
    /\ rel = NoRelease

Init == InitProgram /\ bar = NoBar

\* The window with its progress bar.
InitBar == InitProgram /\ bar = NewBar

\* ------------------------------------------------------------ pure helpers

Min(a, b) == IF a <= b THEN a ELSE b

Max(a, b) == IF a >= b THEN a ELSE b

\* a <= b for two percentages held as fractions.
PercentLE(a, b) == a.num * b.den <= b.num * a.den


\* ProgressOf without the cap at 100.
ProgressOfUnclamped(downloaded, total) ==
    [kind |-> "percent", num |-> downloaded * 100, den |-> total]

\* min((downloaded / total_size) * 100, 100.0), as the fraction num/den.
ProgressOf(downloaded, total) ==
    [kind |-> "percent", num |-> Min(downloaded * 100, 100 * total), den |-> total]


\* raise_for_status that lets 4xx through.
RaisesForStatus5xxOnly(code) == code >= 500 /\ code < 600

\* response.raise_for_status(): HTTPError for 4xx and 5xx.
RaisesForStatus(code) == code >= 400 /\ code < 600


\* A file check that accepts every file.
VerificationFailsNever(f) == FALSE

\* The file check without the size test.
VerificationFailsMissingOnly(f) == ~f.exists

\* The test of run() on the downloaded file:
\* not os.path.exists(local_file) or os.path.getsize(local_file) == 0.
VerificationFails(f) == ~f.exists \/ f.size = 0

\* The tests of run() on the version-info response: "resolved" when the
\* download URL is built, "unresolved" when an if falls through without an
\* exception, "exception" when requests.get or response.json() raises
\* (data.get on a payload that is no object raises as well).
ResolvePrimary(resp) ==
    IF resp.net # "ok" THEN "exception"
    ELSE IF resp.code # 200 THEN "unresolved"
    ELSE IF resp.json # "object" THEN "exception"
    ELSE IF resp.appVer /\ resp.status = "OK" THEN "resolved"
    ELSE "unresolved"

\* Why the primary resolution failed ("none" when it did not).
ResolutionFailure(resp) ==
    IF resp.net = "error" THEN "network_error"
    ELSE IF resp.net = "timeout" THEN "timeout"
    ELSE IF resp.code # 200 THEN "non_200"
    ELSE IF resp.json # "object" THEN "malformed"
    ELSE IF ~resp.appVer THEN "no_appVer"
    ELSE IF resp.status # "OK" THEN "status_not_OK"
    ELSE "none"

\* hmac.new(key, message, hashlib.sha256).hexdigest(): the digest stands for
\* the key and the message it was computed from, so two digests are equal
\* exactly when both are.
Hmac(key, message) == <<"HMAC-SHA256", key, message>>

\* f"{timestamp}:{self.client_id}"
SignedMessage(timestamp, client_id) == <<timestamp, ":", client_id>>


\* _generate_auth_headers that keeps the headers of the session's earlier
\* request.
GenerateAuthHeadersCached(r) ==
    IF r.pingheaders # NoHeaders THEN r.pingheaders
    ELSE [timestamp |-> clock,
          signature |-> Hmac(r.installer_secret, SignedMessage(clock, r.client_id)),
          id |-> r.client_id]

\* _generate_auth_headers: the clock is read, the timestamp and the client
\* id are signed with the installer secret.
GenerateAuthHeaders(r) ==
    LET timestamp == clock
        message == SignedMessage(timestamp, r.client_id)
    IN  [timestamp |-> timestamp,
         signature |-> Hmac(r.installer_secret, message),
         id |-> r.client_id]

\* The first attempt of the resolver: the URL built from the version info
\* when that resolves; every exception of the attempt is swallowed (except:
\* pass) and the GitHub request follows.
ReleaseFromApi(v) ==
    IF ResolvePrimary(v) = "resolved"
    THEN [pc |-> "returned", result |-> "release_url"]
    ELSE [pc |-> "github", result |-> "none"]


\* A resolver that answers None when GitHub gives no installer.
ReleaseFromGithubNone(g) ==
    IF g.net # "ok" \/ RaisesForStatus(g.code) \/ g.json # "object" \/ g.assets # "exe"
    THEN [pc |-> "returned", result |-> "none"]
    ELSE [pc |-> "returned", result |-> "asset_url"]

\* The second attempt: the first .exe asset of the latest GitHub release;
\* a failed request, a bad status, a payload without usable assets and a
\* release without installer are logged and raised again.
ReleaseFromGithub(g) ==
    IF g.net # "ok" \/ RaisesForStatus(g.code) \/ g.json # "object" \/ g.assets # "exe"
    THEN [pc |-> "raised", result |-> "none"]
    ELSE [pc |-> "returned", result |-> "asset_url"]

\* The try block of run() that is executing: that of the last download.
Stage(r) == r.calls[Len(r.calls)][1]

\* --------------------------------------------------------------- callbacks

\* self.status_callback(msg)
Status(r, msg) ==
    [r EXCEPT !.status = msg,
              !.announced = @ \/ msg = MsgPrimaryFailed,
              !.ui_calls = TRUE]

\* self.progress_callback(p), from run() or from download_file.
Progress(r, p) ==
    [r EXCEPT !.progress = p,
              !.emitted = TRUE,
              !.dl.indet = @ \/ (p = Indeterminate /\ r.dl.ret = "running"),
              !.late_progress = @ \/ r.completions # <<>>,
              !.ui_calls = TRUE]

\* self.completion_callback(success)
Complete(r, success) ==
    [r EXCEPT !.completions = Append(@, success), !.ui_calls = TRUE]


\* A finally clause that leaves self.running set.
FinallyKeepsRunning(r) == [r EXCEPT !.pc = "done"]

\* The finally clause of run(), after which the thread ends.
Finally(r) == [r EXCEPT !.running = FALSE, !.pc = "done"]

\* ------------------------------------------------------------ progress bar

\* The thread begins a step: no callback called yet.
Quiet(r) == [r EXCEPT !.emitted = FALSE]

\* normalized_progress of _update_determinate_progress, as a fraction: a
\* progress above 1.0 is taken as a percentage and divided by 100, any other
\* as a fraction already; both are clamped to [0, 1].
Normalize(p) ==
    IF p.num > p.den
    THEN [num |-> Min(Max(p.num, 0), 100 * p.den), den |-> 100 * p.den]
    ELSE [num |-> Min(Max(p.num, 0), p.den), den |-> p.den]

\* _update_determinate_progress: progress_bar.set and the percentage label,
\* int(normalized_progress * 100).
UpdateDeterminateProgress(b, p) ==
    LET normalized_progress == Normalize(p)
    IN  [b EXCEPT !.value = normalized_progress,
                  !.percentage = (normalized_progress.num * 100)
                                     \div normalized_progress.den,
                  !.applied = p,
                  !.high = IF PercentLE(@, normalized_progress)
                           THEN normalized_progress ELSE @]

\* update_progress: None switches the bar to indeterminate; a value given
\* to an indeterminate bar switches it back and is applied by an after(50)
\* callback; a value given to a determinate bar is applied at once.
UpdateProgress(b, p) ==
    IF p = Indeterminate THEN [b EXCEPT !.mode = "indeterminate"]
    ELSE IF b.mode = "indeterminate"
    THEN [b EXCEPT !.mode = "determinate", !.pending = Append(@, p)]
    ELSE UpdateDeterminateProgress(b, p)

\* nb where the bar is part of the state.
Tracked(b, nb) == IF b.mode = "untracked" THEN b ELSE nb

\* The bar after a step of a thread from r to n: the step's
\* progress_callback call, if it made one, has run update_progress; from the
\* start of a download_file call on, the values of that download count.
Shown(b, r, n) ==
    LET b1 == IF Len(n.calls) > Len(r.calls)
              THEN [b EXCEPT !.high = [num |-> 0, den |-> 1]] ELSE b
    IN  Tracked(b, IF n.emitted THEN UpdateProgress(b1, n.progress) ELSE b1)

\* ------------------------------------------------------------ download_file

\* download_file up to its requests.get: the status callback, then the
\* request is in flight.
DownloadFile(r, source, headers) ==
    [Status(r, MsgDownloadingFile) EXCEPT
        !.pc = "dl_request",
        !.dl = [NewCall(source, headers) EXCEPT !.at = clock],
        !.calls = Append(@, <<source, headers>>)]


\* A handler that returns after its status callback instead of raising.
HandleRequestExceptionSwallow(r) ==
    [Status(r, MsgDownloadError) EXCEPT !.dl.ret = "ok", !.pc = "dl_done"]

\* A handler that asks again after a 5xx answer, up to 3 times.
HandleRequestExceptionRetry(r) ==
    IF r.dl.code >= 500 /\ r.dl.requests < 4
    THEN [r EXCEPT !.dl.requests = @ + 1, !.dl.code = 0, !.pc = "dl_request"]
    ELSE [Status(r, MsgDownloadError) EXCEPT !.dl.ret = "raised", !.pc = "dl_done"]

\* except requests.exceptions.RequestException: log, status, raise.
HandleRequestException(r) ==
    [Status(r, MsgDownloadError) EXCEPT !.dl.ret = "raised", !.pc = "dl_done"]

\* except Exception: log, status, raise.
HandleException(r) ==
    [Status(r, MsgError) EXCEPT !.dl.ret = "raised", !.pc = "dl_done"]


\* ReadLength that switches the bar to indeterminate when no length is
\* known.
ReadLengthAnnounce(r, length) ==
    LET r1 == [r EXCEPT !.dl.total = length,
                        !.dl.opened = TRUE,
                        !.pc = IF length = 0 THEN "dl_content" ELSE "dl_stream"]
    IN  IF length = 0 THEN Progress(r1, Indeterminate) ELSE r1

\* total_size = int(response.headers.get('content-length', 0)) and the
\* branch on it, once the destination is open.
ReadLength(r, length) ==
    [r EXCEPT !.dl.total = length,
              !.dl.opened = TRUE,
              !.pc = IF length = 0 THEN "dl_content" ELSE "dl_stream"]

\* The chunk loop's body: count the chunk, write it, report the progress.
WriteChunk(r, n) ==
    LET d == r.dl.downloaded + n
        p == ProgressOf(d, r.dl.total)
    IN  Progress([r EXCEPT !.dl.downloaded = d, !.dl.dlprog = p], p)

\* return local_path
Return(r) == [r EXCEPT !.dl.ret = "ok", !.pc = "dl_done"]

\* ---------------------------------------------------------------- run()


\* A fallback that sends no auth headers.
FallbackNoHeaders(r) ==
    DownloadFile(Status(r, MsgDownloading), "fallback", NoHeaders)

\* The second try block of run() up to the download request: the auth
\* headers, the status, download_file.
Fallback(r) ==
    LET headers == GenerateAuthHeaders(r)
    IN  DownloadFile(Status(r, MsgDownloading), "fallback", headers)


\* A primary handler that gives up instead of trying the mirror.
OnPrimaryExceptionAbort(r) ==
    Finally(Complete(Status(r, MsgError), FALSE))

\* except Exception of the first try block, then the fallback.
OnPrimaryException(r) == Fallback(Status(r, MsgPrimaryFailed))


\* A fallback handler that resets the progress bar after it has reported
\* the failure.
OnFallbackExceptionReset(r) ==
    Finally(Progress(Complete(Status(r, MsgDownloadFailed), FALSE), Indeterminate))

\* A fallback handler that tries the mirror again.
OnFallbackExceptionRetry(r) == Fallback(Status(r, MsgDownloadFailed))

\* except Exception of the second try block, then finally.
OnFallbackException(r) ==
    Finally(Complete(Status(r, MsgDownloadFailed), FALSE))

\* An exception raised inside a try block of run() reaches that block's
\* handler.
Raise(r) ==
    IF Stage(r) = "primary" THEN OnPrimaryException(r)
    ELSE OnFallbackException(r)

\* run() from the return of download_file to process.wait(): the file
\* check, the callbacks and subprocess.Popen (launched: Popen did not raise).
AfterDownload(r, f, launched) ==
    LET r1 == [r EXCEPT !.badfile = IF ~f.exists \/ f.size = 0
                                    THEN @ \cup {Stage(r)} ELSE @]
    IN  IF VerificationFails(f) THEN Raise([r1 EXCEPT !.cause = "verification"])
        ELSE LET r2 == Progress(Status(r1, MsgRunning), Indeterminate)
             IN  IF launched
                 THEN [r2 EXCEPT !.spawns = @ + 1, !.pc = "child"]
                 ELSE Raise([r2 EXCEPT !.cause = "launch"])


\* AfterWait that does not look at the return code.
AfterWaitAnyCode(r, returncode) ==
    LET r1 == [r EXCEPT !.exits = Append(@, returncode)]
    IN  Finally(Complete(Status(r1, MsgComplete), TRUE))

\* AfterWait without the return that follows completion_callback(True) in
\* the first try block.
AfterWaitNoReturn(r, returncode) ==
    LET r1 == [r EXCEPT !.exits = Append(@, returncode)]
        r2 == Complete(Status(r1, MsgComplete), TRUE)
    IN  IF returncode # 0 THEN Raise([r1 EXCEPT !.cause = "install"])
        ELSE IF Stage(r) = "primary" THEN Fallback(r2)
        ELSE Finally(r2)

\* run() after process.wait() returned.
AfterWait(r, returncode) ==
    LET r1 == [r EXCEPT !.exits = Append(@, returncode)]
    IN  IF returncode = 0
        THEN Finally(Complete(Status(r1, MsgComplete), TRUE))
        ELSE Raise([r1 EXCEPT !.cause = "install"])

\* run() up to the version-info request.
Begin(r) ==
    [Progress([r EXCEPT !.running = TRUE], Indeterminate) EXCEPT !.pc = "version"]

\* threading.Thread(target=self._update_download_count, daemon=True).start()
StartPing(r) == [r EXCEPT !.ping = "started"]

\* run() from the answer to the version-info request to the download
\* request of the primary or of the fallback.
OnVersionInfo(r, resp) ==
    LET r1 == [r EXCEPT !.resolution = ResolutionFailure(resp)]
        how == ResolvePrimary(resp)
    IN  CASE how = "resolved" ->
               DownloadFile(Status(StartPing(r1), MsgDownloading), "primary", NoHeaders)
          [] how = "unresolved" -> Fallback(r1)
          [] OTHER -> OnPrimaryException([r1 EXCEPT !.cause = "resolution"])

\* ------------------------------------------------- _update_download_count

\* The count request is sent with headers generated for it.
SendPing(r) ==
    [r EXCEPT !.ping = "inflight",
              !.pings = @ + 1,
              !.pingheaders = GenerateAuthHeaders(r),
              !.pingat = clock]


\* A count thread that reports a failed request to the window.
PingDoneReports(r, outcome) ==
    IF outcome = "ok" THEN [r EXCEPT !.ping = "done"]
    ELSE [Status(r, MsgError) EXCEPT !.ping = "done"]

\* The count request has ended: the answer is dropped, and so is any
\* exception (except: pass).
PingDone(r, outcome) == [r EXCEPT !.ping = "done"]


\* A with block that removes the destination on the way out.
CloseOnErrorRemove(fs, path) == [fs EXCEPT ![path] = NoFile]

\* What the with block of download_file leaves of the destination when an
\* exception leaves it: the file is closed, with what was written.
CloseOnError(fs, path) == fs

\* ------------------------------------------------------------------ actions

\* Thread.start() on a new InstallerProcess.
StartThread(s) == [w EXCEPT ![s].pc = "started"]

\* on_fade_in_complete -> _start_installation: the installer is created and
\* started; the Install button is not touched.
OnFadeInComplete ==
    /\ ~faded
    /\ faded' = TRUE
    /\ bar' = Tracked(bar, [bar EXCEPT !.mode = "indeterminate"])
    /\ w' = StartThread("auto")
    /\ UNCHANGED <<file, install_button, env>>

\* _on_install_click: a click reaches the handler only while the button is
\* enabled.  The buttons are disabled, the installer is created and started;
\* if that raises, _on_installation_error enables the buttons again.
OnInstallClick ==
    /\ install_button = "normal"
    /\ \E started \in BOOLEAN :
          IF started
          THEN /\ install_button' = "disabled"
               /\ w' = StartThread("click")
          ELSE /\ install_button' = "normal"
               /\ w' = w
    /\ bar' = Tracked(bar, [bar EXCEPT !.percentage = 0])
    /\ UNCHANGED <<file, faded, env>>

\* run() up to the version-info request.
RunStart(s) ==
    /\ w[s].pc = "started"
    /\ w' = [w EXCEPT ![s] = Begin(Quiet(@))]
    /\ bar' = Shown(bar, w[s], w'[s])
    /\ UNCHANGED <<file, ui, env>>

\* The version-info request returns or raises; run() goes on to the
\* download request of the primary or of the fallback.
VersionInfoResponse(s) ==
    /\ w[s].pc = "version"
    /\ \E resp \in VersionResponses :
          w' = [w EXCEPT ![s] = OnVersionInfo(Quiet(@), resp)]
    /\ bar' = Shown(bar, w[s], w'[s])
    /\ UNCHANGED <<file, ui, env>>

\* The download request returns or raises.  On a good status the
\* destination is opened for writing, which creates or truncates it, unless
\* open() raises.
DownloadResponse(s) ==
    /\ w[s].pc = "dl_request"
    /\ \E resp \in DownloadResponses :
          LET code == IF resp.net = "ok" THEN resp.code ELSE 0
              r == [Quiet(w[s]) EXCEPT !.dl.code = code]
              bad == [r EXCEPT !.dl.failed = TRUE]
          IN  IF resp.net # "ok" \/ RaisesForStatus(resp.code)
              THEN /\ w' = [w EXCEPT ![s] = HandleRequestException(bad)]
                   /\ file' = file
              ELSE \/ /\ w' = [w EXCEPT ![s] = ReadLength(r, resp.length)]
                      /\ file' = [file EXCEPT ![r.dl.source] =
                                     [exists |-> TRUE, size |-> 0]]
                   \/ /\ w' = [w EXCEPT ![s] = HandleException(bad)]
                      /\ file' = file
    /\ bar' = Shown(bar, w[s], w'[s])
    /\ UNCHANGED <<ui, env>>

\* total_size == 0: f.write(response.content), the whole body in one read,
\* unless the read raises; the file is closed and download_file ends.
DownloadContent(s) ==
    /\ w[s].pc = "dl_content"
    /\ \/ \E body \in 0..MaxBody :
             /\ file' = [file EXCEPT ![w[s].dl.source].size = Max(@, body)]
             /\ w' = [w EXCEPT ![s] = Return([Quiet(@) EXCEPT !.dl.downloaded = body])]
       \/ /\ file' = CloseOnError(file, w[s].dl.source)
          /\ w' = [w EXCEPT ![s] =
                      HandleRequestException([Quiet(@) EXCEPT !.dl.failed = TRUE])]
    /\ bar' = Shown(bar, w[s], w'[s])
    /\ UNCHANGED <<ui, env>>

\* One turn of the loop over response.iter_content: a chunk is written and
\* reported, or the body has ended and download_file returns, or the read
\* raises.
DownloadChunk(s) ==
    /\ w[s].pc = "dl_stream"
    /\ \/ \E n \in 1..MaxBody :
             /\ w[s].dl.downloaded + n <= MaxBody
             /\ w' = [w EXCEPT ![s] = WriteChunk(Quiet(@), n)]
             /\ file' = [file EXCEPT ![w[s].dl.source].size =
                            Max(@, w'[s].dl.downloaded)]
       \/ /\ file' = file
          /\ w' = [w EXCEPT ![s] = Return(Quiet(@))]
       \/ /\ file' = CloseOnError(file, w[s].dl.source)
          /\ w' = [w EXCEPT ![s] =
                      HandleRequestException([Quiet(@) EXCEPT !.dl.failed = TRUE])]
    /\ bar' = Shown(bar, w[s], w'[s])
    /\ UNCHANGED <<ui, env>>

\* download_file has returned or raised: run() goes on to the child, to the
\* fallback or to the end.  The call's locals are gone.
DownloadEnd(s) ==
    /\ w[s].pc = "dl_done"
    /\ LET r == [Quiet(w[s]) EXCEPT !.dl = NoCall] IN
       IF w[s].dl.ret = "raised"
       THEN w' = [w EXCEPT ![s] = Raise([r EXCEPT !.cause = "download"])]
       ELSE \E launched \in BOOLEAN :
               w' = [w EXCEPT ![s] =
                        AfterDownload(r, file[w[s].dl.source], launched)]
    /\ bar' = Shown(bar, w[s], w'[s])
    /\ UNCHANGED <<file, ui, env>>

\* process.wait() returns.
ChildExit(s) ==
    /\ w[s].pc = "child"
    /\ \E returncode \in ExitCodes :
          w' = [w EXCEPT ![s] = AfterWait(Quiet(w[s]), returncode)]
    /\ bar' = Shown(bar, w[s], w'[s])
    /\ UNCHANGED <<file, ui, env>>

\* The steps of one InstallerProcess thread.
Worker(s) ==
    \/ RunStart(s)
    \/ VersionInfoResponse(s)
    \/ DownloadResponse(s)
    \/ DownloadContent(s)
    \/ DownloadChunk(s)
    \/ DownloadEnd(s)
    \/ ChildExit(s)

\* The count thread of s sends its request.
PingRequest(s) ==
    /\ w[s].ping = "started"
    /\ w' = [w EXCEPT ![s] = SendPing(@)]
    /\ UNCHANGED <<file, ui, env, bar>>

\* The count request of s returns or raises, within its timeout or after
\* it; a request that never ends is one for which this step is never taken.
PingResponse(s) ==
    /\ w[s].ping = "inflight"
    /\ \E outcome \in PingOutcomes :
          w' = [w EXCEPT ![s] = PingDone(@, outcome)]
    /\ UNCHANGED <<file, ui, env, bar>>

\* The steps of the count thread of s.
Ping(s) == PingRequest(s) \/ PingResponse(s)

\* A second passes.
Tick ==
    /\ clock < MaxClock
    /\ clock' = clock + 1
    /\ UNCHANGED <<w, file, ui, rel, bar>>

\* A caller asks Downloader.get_latest_github_release for the installer's
\* URL: the version-info request is sent.
CallResolver ==
    /\ rel.pc = "idle"
    /\ rel' = [rel EXCEPT !.pc = "api"]
    /\ UNCHANGED <<w, file, ui, clock, bar>>

\* The resolver's version-info request returns or raises.
ResolverApiResponse ==
    /\ rel.pc = "api"
    /\ \E v \in VersionResponses : rel' = ReleaseFromApi(v)
    /\ UNCHANGED <<w, file, ui, clock, bar>>

\* The resolver's GitHub request returns or raises.
ResolverGithubResponse ==
    /\ rel.pc = "github"
    /\ \E g \in GithubResponses : rel' = ReleaseFromGithub(g)
    /\ UNCHANGED <<w, file, ui, clock, bar>>

\* The steps of one get_latest_github_release call.
ResolveRelease ==
    \/ CallResolver
    \/ ResolverApiResponse
    \/ ResolverGithubResponse

\* The Tk main loop runs the oldest after(50) callback of update_progress.
DeferredUpdate ==
    /\ bar.pending # <<>>
    /\ bar' = [UpdateDeterminateProgress(bar, Head(bar.pending))
                  EXCEPT !.pending = Tail(bar.pending)]
    /\ UNCHANGED <<w, file, ui, env>>

\* One installation: the automatic start and the thread it creates.
Next ==
    \/ OnFadeInComplete
    \/ Worker("auto")

Spec == Init /\ [][Next]_vars

\* The window with both triggers and the threads they start.
NextWindow ==
    \/ OnFadeInComplete
    \/ OnInstallClick
    \/ \E s \in Sessions : Worker(s)

SpecWindow == Init /\ [][NextWindow]_vars

\* One installation with its count thread, while time passes.
NextAuth ==
    \/ Next
    \/ Ping("auto")
    \/ Tick

SpecAuth == Init /\ [][NextAuth]_vars

\* One installation, and the resolver called beside it.
NextApi ==
    \/ Next
    \/ ResolveRelease

SpecApi == Init /\ [][NextApi]_vars

\* One installation, the progress bar and the main loop that runs the
\* after() callbacks.
NextBar ==
    \/ Next
    \/ DeferredUpdate

SpecBar == InitBar /\ [][NextBar]_vars

\* One installation whose thread keeps running: every request it waits for
\* returns or raises, and the child it waits for exits.
SpecLive == Spec /\ WF_vars(Worker("auto"))

\* ------------------------------------------------------------------ claims

\* A session is in flight from Thread.start() until run() has ended.
InFlight(s) == w[s].pc \notin {"idle", "done"}

\* The primary resolution of s has failed.
ResolutionFailed(s) == w[s].resolution \notin {"pending", "none"}

\* The sources of the download_file calls of s, in order.
CallSources(s) == [i \in DOMAIN w[s].calls |-> w[s].calls[i][1]]

\* C1: completion_callback is called exactly once per run: never twice, and
\* once run() has returned it has been called.
C1_CompletionExactlyOnce ==
    \A s \in Sessions :
        /\ Len(w[s].completions) <= 1
        /\ w[s].pc = "done" => Len(w[s].completions) = 1

\* A run whose primary child failed and whose fallback child succeeded has
\* returned.
C1_Witness ==
    /\ w["auto"].pc = "done"
    /\ w["auto"].exits = <<1, 0>>
    /\ w["auto"].completions = <<TRUE>>

\* C2 as stated: once a download has returned with a missing or empty file,
\* on either path, the session never delivers completion_callback(True) and
\* ends with completion_callback(False).
C2_Original ==
    \A s \in Sessions :
        w[s].badfile # {} =>
            /\ \A i \in DOMAIN w[s].completions : w[s].completions[i] = FALSE
            /\ w[s].pc = "done" => w[s].completions = <<FALSE>>

\* C2, amended: a missing or empty file after the fallback download ends
\* the session with completion_callback(False) and nothing else; after the
\* primary download it starts the fallback download, and no child is
\* spawned from the primary file.
C2_Amended ==
    \A s \in Sessions :
        /\ "fallback" \in w[s].badfile =>
              /\ w[s].pc = "done"
              /\ w[s].completions = <<FALSE>>
        /\ "primary" \in w[s].badfile =>
              /\ CallSources(s) = <<"primary", "fallback">>
              /\ w[s].spawns <= 1
              /\ Len(w[s].exits) <= 1

\* Both downloads of a run returned an empty file.
C2_Witness ==
    /\ w["auto"].badfile = {"primary", "fallback"}
    /\ w["auto"].pc = "done"

\* C3 as stated: once a child has exited with a non-zero code the session
\* has ended with completion_callback(False); nothing is downloaded or
\* spawned after it.
C3_Original ==
    \A s \in Sessions :
        (\E i \in DOMAIN w[s].exits : w[s].exits[i] # 0) =>
            /\ w[s].pc = "done"
            /\ w[s].completions = <<FALSE>>
            /\ w[s].spawns = 1

\* C4 as stated: after a successful resolution at most one download_file
\* call is made.
C4_Original ==
    \A s \in Sessions :
        w[s].resolution = "none" => Len(w[s].calls) <= 1

\* C4, amended: at most one download_file call per source, the primary
\* first; a failed resolution is followed by the fallback call alone, and
\* the fallback call is never followed by another call.
C4_Amended ==
    \A s \in Sessions :
        /\ Len(w[s].calls) <= 2
        /\ Len(w[s].calls) = 2 =>
              /\ w[s].calls[1][1] = "primary"
              /\ w[s].calls[2][1] = "fallback"
        /\ ResolutionFailed(s) => CallSources(s) = <<"fallback">>
        /\ w[s].resolution = "none" => w[s].calls[1][1] = "primary"

\* The primary download and then the fallback download failed.
C4_Witness ==
    /\ w["auto"].resolution = "none"
    /\ Len(w["auto"].calls) = 2
    /\ w["auto"].spawns = 0
    /\ w["auto"].badfile = {}
    /\ w["auto"].completions = <<FALSE>>

\* C5 as stated: at most one session is in flight.
C5_Original == Cardinality({s \in Sessions : InFlight(s)}) <= 1

\* C6 as stated: a download that fails on a 5xx answer has used up its
\* three retries (four requests).
C6_Original ==
    \A s \in Sessions :
        (w[s].dl.ret = "raised" /\ w[s].dl.code >= 500) => w[s].dl.requests = 3 + 1

\* C6, amended: download_file makes one request and never retries; a 5xx
\* answer fails the call at once, and a call that returns was answered
\* with a good status by its only request.
C6_Amended ==
    \A s \in Sessions :
        /\ w[s].dl.requests <= 1
        /\ w[s].dl.code >= 500 => (w[s].dl.ret = "raised" /\ w[s].pc = "dl_done")
        /\ w[s].dl.ret = "ok" =>
              (w[s].dl.requests = 1 /\ ~RaisesForStatus(w[s].dl.code))

\* A download has failed on a 500 answer.
C6_Witness ==
    /\ w["auto"].dl.code = 500
    /\ w["auto"].dl.ret = "raised"
    /\ w["auto"].dl.requests = 1

\* C7: a 4xx answer fails download_file after its one request.
C7_NoRetryOn4xx ==
    \A s \in Sessions :
        (w[s].dl.code >= 400 /\ w[s].dl.code < 500) =>
            /\ w[s].dl.ret = "raised"
            /\ w[s].dl.requests = 1
            /\ w[s].pc = "dl_done"

\* A download has failed on a 404 answer.
C7_Witness ==
    /\ w["auto"].dl.code = 404
    /\ w["auto"].dl.ret = "raised"

\* C8: within one download_file call the percentages given to
\* progress_callback stay within [0, 100] and never decrease, and a call
\* that returns after writing exactly the declared length has reported 100.
C8_ProgressMonotone ==
    /\ [](\A s \in Sessions :
            LET c == w[s].dl IN
            /\ c.dlprog.kind = "percent" =>
                  /\ 0 <= c.dlprog.num
                  /\ c.dlprog.num <= 100 * c.dlprog.den
                  /\ w[s].progress = c.dlprog
            /\ (c.ret = "ok" /\ c.total > 0 /\ c.downloaded = c.total) =>
                  /\ c.dlprog.kind = "percent"
                  /\ c.dlprog.num = 100 * c.dlprog.den)
    /\ [][\A s \in Sessions :
            (w[s].dl.dlprog.kind = "percent" /\ w'[s].dl.dlprog.kind = "percent")
                => PercentLE(w[s].dl.dlprog, w'[s].dl.dlprog)]_vars

\* A download of declared length 2 has returned after two bytes.
C8_Witness ==
    /\ w["auto"].dl.ret = "ok"
    /\ w["auto"].dl.total = 2
    /\ w["auto"].dl.downloaded = 2
    /\ w["auto"].dl.dlprog.num = 200

\* C9: after any failure of the primary resolution the fallback download
\* from the mirror has been started.
C9_FallbackAfterResolutionFailure ==
    \A s \in Sessions :
        ResolutionFailed(s) =>
            /\ Len(w[s].calls) >= 1
            /\ w[s].calls[1][1] = "fallback"

\* The version-info request timed out and the mirror is being asked.
C9_Witness ==
    /\ w["auto"].resolution = "timeout"
    /\ w["auto"].pc = "dl_request"
    /\ w["auto"].dl.source = "fallback"

\* C10 as stated: whenever the fallback download has been started after a
\* failed primary resolution, the "primary failed, trying backup" status
\* has been emitted.
C10_Original ==
    \A s \in Sessions :
        (ResolutionFailed(s) /\ Len(w[s].calls) >= 1) => w[s].announced

\* h is what _generate_auth_headers of session s gives at second at.
Signed(h, s, at) ==
    h = [timestamp |-> at,
         signature |-> Hmac(w[s].installer_secret,
                            SignedMessage(at, w[s].client_id)),
         id |-> w[s].client_id]

\* C11: a request carries the auth headers exactly when it goes to the
\* mirror.  Every primary download_file call is made without them, every
\* fallback call and the count request with them, and those of the fallback
\* call are generated for it: their timestamp is the second of the call.
C11_AuthHeadersOnlyToMirror ==
    \A s \in Sessions :
        /\ \A i \in DOMAIN w[s].calls :
              (w[s].calls[i][1] = "primary") <=> (w[s].calls[i][2] = NoHeaders)
        /\ w[s].dl.source = "primary" => w[s].dl.headers = NoHeaders
        /\ w[s].dl.source = "fallback" =>
              /\ w[s].dl.headers # NoHeaders
              /\ w[s].dl.headers.timestamp = w[s].dl.at
        /\ w[s].pings > 0 => w[s].pingheaders # NoHeaders

\* The count request went out at second 0, the primary download failed and
\* the mirror is asked at second 2.
C11_Witness ==
    /\ w["auto"].pc = "dl_request"
    /\ CallSources("auto") = <<"primary", "fallback">>
    /\ w["auto"].dl.at = 2
    /\ w["auto"].pings = 1
    /\ w["auto"].pingat = 0

\* C12: completion_callback(True) has been called exactly when a spawned
\* installer child has exited with code 0, and never while a child is still
\* being waited for.
C12_SuccessIffChildExitedZero ==
    \A s \in Sessions :
        /\ (\E i \in DOMAIN w[s].completions : w[s].completions[i])
              <=> (\E j \in DOMAIN w[s].exits : w[s].exits[j] = 0)
        /\ Len(w[s].exits) <= w[s].spawns
        /\ w[s].pc = "child" =>
              /\ w[s].completions = <<>>
              /\ Len(w[s].exits) < w[s].spawns

\* Both children of a run exited with code 1 and the run has ended.
C12_Witness ==
    /\ w["auto"].pc = "done"
    /\ w["auto"].exits = <<1, 1>>
    /\ w["auto"].completions = <<FALSE>>

\* C13: progress_callback is never called after completion_callback: once
\* the completion has been delivered the reported progress stays as it is.
C13_NoProgressAfterCompletion ==
    /\ [](\A s \in Sessions : ~w[s].late_progress)
    /\ [][\A s \in Sessions :
            w[s].completions # <<>> => w'[s].progress = w[s].progress]_vars

\* A run that reported a percentage has ended with completion_callback(False).
C13_Witness ==
    /\ w["auto"].pc = "done"
    /\ w["auto"].completions = <<FALSE>>
    /\ w["auto"].progress.kind = "percent"

\* C14 as stated: no method of the window runs on a worker thread.
C14_Original ==
    \A s \in Sessions : ~w[s].ui_calls

\* The record of a session without what its count thread writes.
Main(r) ==
    [r EXCEPT !.ping = "none", !.pings = 0,
              !.pingheaders = NoHeaders, !.pingat = 0]

\* The records the next step of run() can lead to from r, when the
\* destination files are fs.
MainSteps(r, fs) ==
    LET q == Quiet(r)
        bad == [q EXCEPT !.dl.failed = TRUE]
        gone == [q EXCEPT !.dl = NoCall]
    IN  CASE r.pc = "started" -> {Begin(q)}
          [] r.pc = "version" ->
               {OnVersionInfo(q, resp) : resp \in VersionResponses}
          [] r.pc = "dl_request" ->
               {HandleRequestException([bad EXCEPT !.dl.code = c]) :
                    c \in {0} \cup {h \in HttpCodes : RaisesForStatus(h)}}
               \cup {HandleException([bad EXCEPT !.dl.code = c]) :
                    c \in {h \in HttpCodes : ~RaisesForStatus(h)}}
               \cup {ReadLength([q EXCEPT !.dl.code = c], n) :
                    c \in {h \in HttpCodes : ~RaisesForStatus(h)},
                    n \in (0..MaxBody) \cup {LargeLength}}
          [] r.pc = "dl_content" ->
               {Return([q EXCEPT !.dl.downloaded = n]) : n \in 0..MaxBody}
               \cup {HandleRequestException(bad)}
          [] r.pc = "dl_stream" ->
               {WriteChunk(q, n) : n \in 1..MaxBody}
               \cup {Return(q), HandleRequestException(bad)}
          [] r.pc = "dl_done" ->
               IF r.dl.ret = "raised"
               THEN {Raise([gone EXCEPT !.cause = "download"])}
               ELSE {AfterDownload(gone, fs[r.dl.source], l) : l \in BOOLEAN}
          [] r.pc = "child" -> {AfterWait(q, c) : c \in ExitCodes}
          [] OTHER -> {}

\* C15: the count request never changes the main flow.  A step of the count
\* thread, whatever the outcome of its request, leaves everything run()
\* reads and writes as it is; every step of run() is one run() can take from
\* the same state without any count thread; run() is never held up, whether
\* the count request is not yet sent, in flight without end, or over; and a
\* session issues at most one count request.
C15_PingNeverChangesMainFlow ==
    /\ [](\A s \in Sessions :
            /\ w[s].pings <= 1
            /\ InFlight(s) => ENABLED Worker(s))
    /\ [][\A s \in Sessions :
            /\ w'[s].ping # w[s].ping /\ w[s].ping # "none"
                 => Main(w'[s]) = Main(w[s]) /\ file' = file
            /\ InFlight(s) /\ (w'[s].pc # w[s].pc \/ w'[s].dl # w[s].dl)
                 => Main(w'[s]) \in {Main(n) : n \in MainSteps(Main(w[s]), file)}]_vars

\* The count request has failed or succeeded and the run went on to the end
\* of a successful installation.
C15_Witness ==
    /\ w["auto"].ping = "done"
    /\ w["auto"].pings = 1
    /\ w["auto"].pc = "done"
    /\ w["auto"].completions = <<TRUE>>

\* C16 as stated: when download_file has raised after opening the
\* destination, no file is left at the destination.
C16_Original ==
    \A s \in Sessions :
        (w[s].dl.ret = "raised" /\ w[s].dl.opened) =>
            ~file[w[s].dl.source].exists

\* C16, amended: when download_file has raised after opening the
\* destination, the file is left there with the bytes written so far.
C16_Amended ==
    \A s \in Sessions :
        (w[s].dl.ret = "raised" /\ w[s].dl.opened) =>
            /\ file[w[s].dl.source].exists
            /\ file[w[s].dl.source].size = w[s].dl.downloaded

\* A download of declared length 2 has raised after one byte.
C16_Witness ==
    /\ w["auto"].dl.ret = "raised"
    /\ w["auto"].dl.total = 2
    /\ w["auto"].dl.downloaded = 1
    /\ file[w["auto"].dl.source].size = 1

\* C17 as stated: neither download_file nor get_latest_github_release ever
\* ends by raising to its caller.
C17_Original ==
    /\ \A s \in Sessions : w[s].dl.ret # "raised"
    /\ rel.pc # "raised"

\* C17, amended: download_file ends by raising exactly when its request,
\* the opening of the destination or a read has failed, after a status
\* callback that names the error; and whenever get_latest_github_release
\* returns, it returns a URL.
C17_Amended ==
    /\ \A s \in Sessions :
          /\ w[s].dl.failed <=> w[s].dl.ret = "raised"
          /\ w[s].dl.ret = "raised" => w[s].status \in {MsgDownloadError, MsgError}
          /\ w[s].pc = "dl_done" => w[s].dl.ret \in {"ok", "raised"}
    /\ rel.pc = "returned" => rel.result \in {"release_url", "asset_url"}
    /\ rel.pc = "raised" => rel.result = "none"

\* A download has raised after a failed read, and the resolver has raised.
C17_Witness ==
    /\ w["auto"].dl.ret = "raised"
    /\ w["auto"].dl.opened
    /\ rel.pc = "raised"

\* C18 as stated: once download_file has found no content length, it has
\* called progress_callback(None), before the body is written.
C18_Original ==
    \A s \in Sessions :
        (w[s].dl.opened /\ w[s].dl.total = 0) => w[s].dl.indet

\* C18, amended: a download_file call that finds no content length never
\* calls progress_callback, neither with None nor with a percentage.
C18_Amended ==
    \A s \in Sessions :
        (w[s].dl.opened /\ w[s].dl.total = 0) =>
            /\ ~w[s].dl.indet
            /\ w[s].dl.dlprog = NoProgress

\* A download without content length has written a body of two bytes and
\* returned.
C18_Witness ==
    /\ w["auto"].dl.ret = "ok"
    /\ w["auto"].dl.total = 0
    /\ w["auto"].dl.downloaded = 2

\* C19 as stated: the status a failed run ends with is the one of a failed
\* download exactly when a download has failed; a failed file check, a
\* failed launch and a non-zero exit end with another one.
C19_Original ==
    \A s \in Sessions :
        (w[s].pc = "done" /\ w[s].completions = <<FALSE>>) =>
            (w[s].status = MsgDownloadFailed <=> w[s].cause = "download")

\* C20: every set of auth headers is generated from the clock at the moment
\* of its request: the timestamp is that second, the signature is the HMAC
\* under the installer secret of timestamp:client id, the id is the client
\* id; two sets of a session with different timestamps have different
\* signatures.
C20_AuthHeadersFreshAndSigned ==
    \A s \in Sessions :
        /\ w[s].dl.source = "fallback" => Signed(w[s].dl.headers, s, w[s].dl.at)
        /\ w[s].pings > 0 => Signed(w[s].pingheaders, s, w[s].pingat)
        /\ (w[s].dl.source = "fallback" /\ w[s].pings > 0
              /\ w[s].dl.headers.timestamp # w[s].pingheaders.timestamp)
             => w[s].dl.headers.signature # w[s].pingheaders.signature

\* The count request was signed at second 1 and the fallback request at
\* second 2.
C20_Witness ==
    /\ w["auto"].dl.source = "fallback"
    /\ w["auto"].dl.at = 2
    /\ w["auto"].dl.headers.timestamp = 2
    /\ w["auto"].pings = 1
    /\ w["auto"].pingheaders.timestamp = 1

\* download_file of session s holds path p open for writing.
Writing(s, p) ==
    /\ w[s].pc \in {"dl_content", "dl_stream"}
    /\ w[s].dl.source = p

\* The child of session s, spawned from path p, is executing.
Executing(s, p) ==
    /\ w[s].pc = "child"
    /\ Stage(w[s]) = p

\* C21 as stated: while a download_file call holds a path open for writing,
\* no other call holds it open and no child spawned from it is executing.
C21_Original ==
    \A p \in Paths : \A s, t \in Sessions :
        (s # t /\ Writing(s, p)) => ~(Writing(t, p) \/ Executing(t, p))

\* C22: a child is spawned only in the step that follows a download_file
\* call which returned, from the file of that call, found present and not
\* empty in that step; so no child runs from a source whose download raised
\* or whose file failed the check.
C22_SpawnOnlyAfterVerifiedDownload ==
    /\ [](\A s \in Sessions :
            w[s].pc = "child" =>
                /\ w[s].spawns >= 1
                /\ Stage(w[s]) \notin w[s].badfile)
    /\ [][\A s \in Sessions :
            w'[s].spawns # w[s].spawns =>
                /\ w[s].pc = "dl_done"
                /\ w[s].dl.ret = "ok"
                /\ file[w[s].dl.source].exists
                /\ file[w[s].dl.source].size > 0
                /\ w'[s].spawns = w[s].spawns + 1
                /\ w'[s].pc = "child"
                /\ Stage(w'[s]) = w[s].dl.source]_vars

\* The primary download returned an empty file, no child was spawned from
\* it, and the child of the fallback file is running.
C22_Witness ==
    /\ w["auto"].pc = "child"
    /\ w["auto"].badfile = {"primary"}
    /\ w["auto"].spawns = 1
    /\ Stage(w["auto"]) = "fallback"

\* C23: every started run ends: it delivers one completion and resets
\* running, provided its requests return or raise and its child exits; and
\* a run in flight always has a next step, so it can only wait for those.
C23_EventuallyTerminal ==
    /\ \A s \in Sessions :
          (w[s].pc = "started") ~>
              (w[s].pc = "done" /\ ~w[s].running /\ Len(w[s].completions) = 1)
    /\ [](\A s \in Sessions : w[s].pc = "done" => ~w[s].running)
    /\ [](\A s \in Sessions :
            (InFlight(s) /\ w[s].pc # "started") => w[s].running)

\* A run whose primary download failed has ended after the fallback child
\* exited with code 0.
C23_Witness ==
    /\ w["auto"].pc = "done"
    /\ ~w["auto"].running
    /\ w["auto"].exits = <<0>>
    /\ CallSources("auto") = <<"primary", "fallback">>

\* C24 as stated: during a download the bar is never set to a value below
\* one it was set to earlier in that download.
C24_Original == PercentLE(bar.high, bar.value)

\* C25 as stated: after _update_determinate_progress has run with the
\* percentage p, the bar holds p/100 and the label holds floor(p).
C25_Original ==
    bar.applied.kind = "percent" =>
        /\ bar.value.num * 100 * bar.applied.den
              = bar.applied.num * bar.value.den
        /\ bar.percentage = bar.applied.num \div bar.applied.den

====
